---------------------------- MODULE Spec2Model ----------------------------
(***************************************************************************)
(* Model of the simulated-client engine of test/load_test.py: one EMQXUser  *)
(* (the controller) driving one MQTTClient session against the broker and   *)
(* the Redis permission store, with the paho network loop delivering the    *)
(* callbacks asynchronously.                                               *)
(*                                                                         *)
(* Time is a logical clock in milliseconds: a step reads `now` where the   *)
(* code reads time.time(), and every step advances it.  Locust patches     *)
(* threading with gevent, so a callback body and a controller segment      *)
(* between two blocking calls run without interleaving; each is one action.*)
(***************************************************************************)
EXTENDS Integers, Sequences, FiniteSets, TLC

VARIABLES
    pc,             \* position of the controller (EMQXUser greenlet)
    max_messages,   \* MAX_MESSAGES_PER_USER, read from the environment
    redis_client,   \* EMQXUser.redis_client: "None" | "open" | "closed"
    username,       \* EMQXUser.username ("None" before generation)
    acl_key,        \* EMQXUser.acl_key  ("None" before generation)
    test_topic,     \* EMQXUser.test_topic ("None" before generation)
    mqtt_client,    \* EMQXUser.mqtt_client: the MQTTClient's fields (created = FALSE: None)
    net,            \* paho transport + broker side of the session
    store,          \* Redis: key -> (field -> value)
    messages_sent,  \* EMQXUser.messages_sent
    start_time,     \* start_time local of the running helper
    now,            \* logical wall clock (ms)
    events,         \* events fired through events.request.fire
    fleet,          \* the users of a run with several users: user -> its state
    http,           \* the webhook's exchange: the request read, the response written
    hist            \* history of the run (observations only, never read by the code)

vars == <<pc, max_messages, redis_client, username, acl_key, test_topic,
          mqtt_client, net, store, messages_sent, start_time, now, events, fleet,
          http, hist>>

(***************************************************************************)
(* Bounds of the model.                                                    *)
(***************************************************************************)
MaxQuota == 2          \* MAX_MESSAGES_PER_USER ranges over 0..MaxQuota
MaxAttempts == 2       \* publish attempts explored per client
MaxCalls == 2          \* calls a direct caller makes on one session after the first
NumUsers == 2          \* users running at the same time
MaxPublishes == 2      \* publish attempts explored in a fleet, all users together
MaxCode == 200         \* reason codes 0..MaxCode are given to on_connect
MaxRaises == 1         \* fires of an event that raise, explored per client

Subjects == {"a", "b"}             \* values of loadtest-<uuid8>
Topics == {"t1", "t2"}             \* values of chat/test-topic/<uuid4>
ResultCodes == {0, 5, 135, 200}    \* CONNACK reason codes the broker may answer

(***************************************************************************)
(* Program constants.                                                      *)
(***************************************************************************)
NoTime == 0            \* a timestamp attribute still None
NoCode == -1           \* connection_result_code still None
PubSub == 3            \* ACL value: publish + subscribe
SubFailure == 128      \* 0x80 in granted_qos: subscription refused

None == "None"

(***************************************************************************)
(* MQTTClient.__init__                                                     *)
(***************************************************************************)
MQTTClient(client_id, user) ==
    [ created |-> TRUE,
      client_id |-> client_id,
      username |-> user,
      connected |-> FALSE,
      subscribed |-> FALSE,
      message_received |-> FALSE,
      received_messages |-> << >>,
      connection_time |-> NoTime,
      subscribe_time |-> NoTime,
      publish_time |-> NoTime,
      receive_time |-> NoTime,
      connection_result_code |-> NoCode,
      connection_error |-> None ]

\* EMQXUser.mqtt_client = None: no session object yet.
NoClient == [MQTTClient(None, None) EXCEPT !.created = FALSE]

\* The transport of a session that was never connected.
NoNet ==
    [ sock |-> FALSE,          \* the TCP socket is open
      loop |-> FALSE,          \* loop_start() thread is running
      connack |-> FALSE,       \* CONNECT sent, CONNACK not yet delivered
      subPending |-> << >>,    \* SUBSCRIBE requests awaiting their SUBACK
      outbox |-> << >>,        \* PUBLISH packets queued, not yet written
      inflight |-> << >>,      \* messages the broker routes back to this session
      brokerSubs |-> {} ]      \* topics the broker granted this session

\* A run of this one user only: no fleet is modelled.
NoFleet == << >>

\* No request has reached the webhook.
NoHttp ==
    [request |-> None, response |-> None, raised |-> None,
     connection_result |-> [connected |-> FALSE, result_code |-> NoCode]]

(***************************************************************************)
(* Broker authorization: the webhook reads the permission store; a topic   *)
(* is allowed for a subject iff the store holds (subject, topic) with the  *)
(* bit of the action.                                                      *)
(***************************************************************************)
\* f"mqtt_acl:{self.username}"
AclKeyOf(subject) == "mqtt_acl:" \o subject

Keys == {AclKeyOf(s) : s \in Subjects}

HasEntry(st, key, topic, mask) == st[key][topic] = mask

Authorized(st, subject, topic) ==
    /\ subject \in Subjects
    /\ topic \in Topics
    /\ st[AclKeyOf(subject)][topic] = PubSub

EmptyStore == [k \in Keys |-> [t \in Topics |-> 0]]

\* redis hset(key, field, value)
hset(st, key, field, value) == [st EXCEPT ![key][field] = value]

\* A delete that empties the whole store.
flushall(st, key) == [k \in Keys |-> [t \in Topics |-> 0]]

\* redis delete(key)
delete(st, key) == [st EXCEPT ![key] = [t \in Topics |-> 0]]

(***************************************************************************)
(* EMQXUser._fire_event.  response_time is << >> for None (the elapsed     *)
(* time since start_time is used) or <<ms>> for a supplied duration.       *)
(***************************************************************************)
_fire_event(evs, request_type, name, st, ok, response_time) ==
    Append(evs, [ request_type |-> request_type,
                  name |-> name,
                  ok |-> ok,
                  response_time |-> IF response_time = << >>
                                    THEN now - st
                                    ELSE response_time[1] ])

(***************************************************************************)
(* A helper of EMQXUser (_create_redis_acl ... _validate_message_receipt)  *)
(* around its operation: the success event is fired inside the try block,  *)
(* so an exception raised by events.request.fire is handled as a failure   *)
(* of the operation: the failure event is fired and the exception          *)
(* re-raised.  ok: the operation succeeded; fired1, fired2: the first and  *)
(* the second fire appended its event (it raised otherwise).  The result   *)
(* is whether the helper returned, and the events it leaves.               *)
(***************************************************************************)
Phase(evs, request_type, name, st, ok, response_time, fired1, fired2) ==
    [ returned |-> ok /\ fired1,
      events |-> IF ok /\ fired1
                 THEN _fire_event(evs, request_type, name, st, TRUE, response_time)
                 ELSE IF fired2
                 THEN _fire_event(evs, request_type, name, st, FALSE, << >>)
                 ELSE evs ]

\* The fires of a helper that raised.
Raises(ok, fired1, fired2) ==
    (IF ok /\ ~fired1 THEN 1 ELSE 0) + (IF ~fired2 THEN 1 ELSE 0)

\* The fires a helper makes: the second only after the first raised or the
\* operation failed, the first only after the operation succeeded.
Fires(ok, fired1, fired2) ==
    /\ (ok /\ fired1) => fired2
    /\ ~ok => fired1
    /\ hist.emitRaised + Raises(ok, fired1, fired2) <= MaxRaises

(***************************************************************************)
(* Callbacks of MQTTClient, run by the network loop.                       *)
(***************************************************************************)
error_messages ==
       1 :> "Connection refused - incorrect protocol version"
    @@ 2 :> "Connection refused - invalid client identifier"
    @@ 3 :> "Connection refused - server unavailable"
    @@ 4 :> "Connection refused - bad username or password"
    @@ 5 :> "Connection refused - not authorized"
    @@ 128 :> "Connection refused - unspecified error"
    @@ 129 :> "Connection refused - malformed packet"
    @@ 130 :> "Connection refused - protocol error"
    @@ 131 :> "Connection refused - implementation specific error"
    @@ 132 :> "Connection refused - unsupported protocol version"
    @@ 133 :> "Connection refused - client identifier not valid"
    @@ 134 :> "Connection refused - bad username or password"
    @@ 135 :> "Connection refused - not authorized"
    @@ 136 :> "Connection refused - server unavailable"
    @@ 137 :> "Connection refused - server busy"
    @@ 138 :> "Connection refused - banned"
    @@ 140 :> "Connection refused - bad authentication method"
    @@ 144 :> "Connection refused - topic name invalid"
    @@ 149 :> "Connection refused - packet too large"
    @@ 151 :> "Connection refused - quota exceeded"
    @@ 153 :> "Connection refused - payload format invalid"
    @@ 154 :> "Connection refused - retain not supported"
    @@ 155 :> "Connection refused - QoS not supported"
    @@ 156 :> "Connection refused - use another server"
    @@ 157 :> "Connection refused - server moved"
    @@ 159 :> "Connection refused - connection rate exceeded"

\* The lookup giving the generic label for every code.
ErrorMessageGeneric(rc) == "Connection refused - error code " \o ToString(rc)

\* error_messages.get(rc_value, f"Connection refused - error code {rc_value}")
ErrorMessage(rc) ==
    IF rc \in DOMAIN error_messages
    THEN error_messages[rc]
    ELSE "Connection refused - error code " \o ToString(rc)

_on_connect(m, rc) ==
    IF rc = 0
    THEN [m EXCEPT !.connection_result_code = rc,
                   !.connected = TRUE,
                   !.connection_time = now]
    ELSE [m EXCEPT !.connection_result_code = rc,
                   !.connected = FALSE,
                   !.connection_error = ErrorMessage(rc)]

\* 0x80 not in granted_qos
Granted(granted_qos) == SubFailure \notin granted_qos

_on_subscribe(m, granted_qos) ==
    IF Granted(granted_qos)
    THEN [m EXCEPT !.subscribed = TRUE, !.subscribe_time = now]
    ELSE m

\* A callback that keeps the time of the latest message.
_on_message_latest(m, topic, payload) ==
    [m EXCEPT !.received_messages =
                  Append(@, [topic |-> topic, payload |-> payload, timestamp |-> now]),
              !.message_received = TRUE,
              !.receive_time = now]

\* A callback that notes the arrival and drops the message.
_on_message_unrecorded(m, topic, payload) ==
    IF ~m.message_received
    THEN [m EXCEPT !.message_received = TRUE, !.receive_time = now]
    ELSE m

_on_message(m, topic, payload) ==
    LET m1 == [m EXCEPT !.received_messages =
                   Append(@, [topic |-> topic, payload |-> payload, timestamp |-> now])]
    IN  IF ~m1.message_received
        THEN [m1 EXCEPT !.message_received = TRUE, !.receive_time = now]
        ELSE m1

_on_publish(m) == [m EXCEPT !.publish_time = now]


(***************************************************************************)
(* What a failed connect reports, and the wait loops of the session.       *)
(***************************************************************************)
NoResponse == "Connection timeout (no response from broker)"

\* The error details without the result code.
ErrorDetailsNoCode(m) ==
    [ result_code |-> << >>,
      error |-> IF m.connection_error # None THEN m.connection_error ELSE NoResponse ]

\* _connect_to_emqx, error_details of a failed connect: the result code if the
\* session holds one, and the session's error text or the timeout text.
ErrorDetails(m) ==
    [ result_code |-> IF m.connection_result_code # NoCode
                      THEN <<m.connection_result_code>>
                      ELSE << >>,
      error |-> IF m.connection_error # None THEN m.connection_error ELSE NoResponse ]

\* A wait that ends only when the callback set the flag.
WaitOverUnbounded(flag, expired) == flag

\* while not flag and (time.time() - start_time) < timeout: the wait loop is
\* left once the flag is set or the deadline has passed.
WaitOver(flag, expired) == flag \/ expired

(***************************************************************************)
(* History of the run.  ops is the trace of calls made to the store and    *)
(* to the transport; the other fields record what the calls returned.      *)
(***************************************************************************)
NoReport == [made |-> FALSE, success |-> FALSE, connack |-> NoCode, sock |-> FALSE,
             details |-> [result_code |-> << >>, error |-> None]]

\* What a connect reported: its return value, the error details built from the
\* session when it failed; with it, the CONNACK code delivered by then and
\* whether the transport had opened its socket.
ConnectReport(m, connack, sock) ==
    [ made |-> TRUE,
      success |-> m.connected,
      connack |-> connack,
      sock |-> sock,
      details |-> IF m.connected THEN NoReport.details ELSE ErrorDetails(m) ]

NoPhase == [name |-> None, ok |-> FALSE, returned |-> FALSE]

\* The record of a helper's run kept in the history.
Ran(h, name, ok, fired1, fired2) ==
    [h EXCEPT !.last = [name |-> name, ok |-> ok, returned |-> ok /\ fired1],
              !.emitRaised = @ + Raises(ok, fired1, fired2)]

NoHist ==
    [ ops |-> << >>,
      grant |-> "none",        \* outcome of _create_redis_acl
      connect |-> "none",      \* outcome of _connect_to_emqx
      subscribe |-> "none",    \* outcome of _subscribe_to_topic
      attempts |-> 0,          \* calls of _publish_message
      counted |-> 0,           \* iterations whose publish and receipt wait both succeeded
      failed |-> 0,            \* iterations ended by an exception
      mid |-> 0,               \* id of the latest publish
      rxAtPublish |-> 0,       \* len(received_messages) at the latest publish
      accepted |-> NoTime,     \* on_publish time of the latest publish
      delivered |-> NoTime,    \* on_message time of the latest publish's message
      receipt |-> "none",      \* outcome of the latest wait_for_message
      fresh |-> FALSE,         \* at that outcome: a message arrived after the publish
      reported |-> 0,          \* latency reported by the latest successful receipt
      expected |-> 0,          \* latency of that same iteration
      end |-> "none",          \* why the lifecycle ended
      stops |-> 0,             \* runs of on_stop
      stepFailed |-> {},       \* teardown calls that failed
      stopRaised |-> None,     \* the teardown call whose exception left on_stop
      connack |-> NoCode,      \* reason code of the CONNACK delivered to on_connect
      report |-> NoReport,     \* what the latest connect reported to its caller
      last |-> NoPhase,        \* the latest helper: its operation's result, its own
      emitRaised |-> 0,        \* fires of an event that raised
      calls |-> << >> ]        \* calls made on the session by a direct caller, with results

Init ==
    /\ pc = "on_start"
    /\ max_messages \in 0..MaxQuota
    /\ redis_client = None
    /\ username = None
    /\ acl_key = None
    /\ test_topic = None
    /\ mqtt_client = NoClient
    /\ net = NoNet
    /\ store = EmptyStore
    /\ messages_sent = 0
    /\ start_time = NoTime
    /\ now = 1
    /\ events = << >>
    /\ fleet = NoFleet
    /\ http = NoHttp
    /\ hist = NoHist

Tick == now' = now + 1

(***************************************************************************)
(* EMQXUser.on_start, first segment: the Redis connection, the ping and    *)
(* the generated identity.                                                 *)
(***************************************************************************)
on_start ==
    /\ pc = "on_start"
    /\ redis_client' = "open"
    /\ \E ping \in BOOLEAN :
         IF ping
         THEN /\ \E u \in Subjects, t \in Topics :
                    /\ username' = u
                    /\ acl_key' = AclKeyOf(u)
                    /\ test_topic' = t
              /\ pc' = "create_acl"
              /\ hist' = [hist EXCEPT !.ops = Append(@, "ping")]
         ELSE /\ UNCHANGED <<username, acl_key, test_topic>>
              /\ pc' = "on_stop"
              /\ hist' = [hist EXCEPT !.ops = Append(@, "ping"), !.end = "startup"]
    /\ Tick
    /\ UNCHANGED <<fleet, http, max_messages, mqtt_client, net, store, messages_sent,
                   start_time, events>>

\* The exception of a failed hset swallowed instead of re-raised.
AfterGrantSwallowed(ok) == "connect"

\* _create_redis_acl re-raises; on_start turns any exception into StopUser.
AfterGrant(ok) == IF ok THEN "connect" ELSE "on_stop"

(***************************************************************************)
(* EMQXUser._create_redis_acl                                              *)
(***************************************************************************)
_create_redis_acl ==
    /\ pc = "create_acl"
    /\ \E ok \in BOOLEAN, fired1 \in BOOLEAN, fired2 \in BOOLEAN :
         LET r == Phase(events, "Redis", "1. Push ACL", now, ok, << >>, fired1, fired2)
             h == Ran(hist, "grant", ok, fired1, fired2)
         IN  /\ Fires(ok, fired1, fired2)
             /\ store' = IF ok THEN hset(store, acl_key, test_topic, PubSub) ELSE store
             /\ events' = r.events
             /\ pc' = AfterGrant(r.returned)
             /\ hist' = [h EXCEPT !.ops = Append(@, "hset"),
                                  !.grant = IF r.returned THEN "ok" ELSE "failed",
                                  !.end = IF AfterGrant(r.returned) = "on_stop"
                                          THEN "startup" ELSE @]
    /\ start_time' = now
    /\ Tick
    /\ UNCHANGED <<fleet, http, max_messages, redis_client, username, acl_key, test_topic,
                   mqtt_client, net, messages_sent>>

\* _connect_to_emqx raises when connect() returned False.
AfterConnect(ok) == IF ok THEN "subscribe" ELSE "on_stop"

(***************************************************************************)
(* EMQXUser._connect_to_emqx up to the wait loop of MQTTClient.connect:    *)
(* the token, the session object, the transport's connect and loop_start.  *)
(***************************************************************************)
_connect_to_emqx ==
    /\ pc = "connect"
    /\ \E outcome \in {"jwt_error", "refused", "os_error", "sent"}, fired2 \in BOOLEAN :
         CASE outcome = "jwt_error" ->
                \* create_jwt_token raised: no session object exists
                /\ Fires(FALSE, TRUE, fired2)
                /\ events' = Phase(events, "MQTT", "2. CONNECT", now, FALSE, << >>,
                                   TRUE, fired2).events
                /\ pc' = "on_stop"
                /\ hist' = [Ran(hist, "connect", FALSE, TRUE, fired2) EXCEPT
                                !.connect = "failed",
                                !.end = "startup"]
                /\ UNCHANGED <<mqtt_client, net>>
           [] outcome \in {"refused", "os_error"} ->
                \* client.connect raised: connect() returns False
                LET m == [MQTTClient(username, username) EXCEPT !.connection_error =
                            IF outcome = "refused"
                            THEN "Connection refused by broker"
                            ELSE "Network error connecting"]
                IN  /\ Fires(FALSE, TRUE, fired2)
                    /\ mqtt_client' = m
                    /\ events' = Phase(events, "MQTT", "2. CONNECT", now, FALSE, << >>,
                                       TRUE, fired2).events
                    /\ pc' = AfterConnect(FALSE)
                    /\ hist' = [Ran(hist, "connect", FALSE, TRUE, fired2) EXCEPT
                                    !.ops = Append(@, "connect"),
                                    !.connect = "failed",
                                    !.report = ConnectReport(m, hist.connack, FALSE),
                                    !.end = "startup"]
                    /\ UNCHANGED net
           [] outcome = "sent" ->
                /\ mqtt_client' = MQTTClient(username, username)
                /\ net' = [NoNet EXCEPT !.sock = TRUE, !.connack = TRUE, !.loop = TRUE]
                /\ fired2
                /\ pc' = "connect_wait"
                /\ hist' = [hist EXCEPT !.ops = Append(@, "connect")]
                /\ UNCHANGED events
    /\ start_time' = now
    /\ Tick
    /\ UNCHANGED <<fleet, http, max_messages, redis_client, username, acl_key, test_topic,
                   store, messages_sent>>

(***************************************************************************)
(* MQTTClient.connect, the wait loop and the return; then the rest of      *)
(* _connect_to_emqx.  The loop leaves with True once connected is set, or  *)
(* at the deadline with whatever connected holds.                          *)
(***************************************************************************)
connect ==
    /\ pc = "connect_wait"
    /\ \E expired \in BOOLEAN, fired1 \in BOOLEAN, fired2 \in BOOLEAN :
         LET success == mqtt_client.connected
             r == Phase(events, "MQTT", "2. CONNECT", start_time, success, << >>,
                        fired1, fired2)
             h == Ran(hist, "connect", success, fired1, fired2)
         IN  /\ WaitOver(mqtt_client.connected, expired)
             /\ Fires(success, fired1, fired2)
             /\ events' = r.events
             /\ pc' = AfterConnect(r.returned)
             /\ hist' = [h EXCEPT !.connect = IF r.returned THEN "ok" ELSE "failed",
                                  !.report = ConnectReport(mqtt_client, hist.connack, net.sock),
                                  !.end = IF AfterConnect(r.returned) = "on_stop"
                                          THEN "startup" ELSE @]
    /\ Tick
    /\ UNCHANGED <<fleet, http, max_messages, redis_client, username, acl_key, test_topic,
                   mqtt_client, net, store, messages_sent, start_time>>

\* The return value of subscribe() not looked at.
AfterSubscribeUnchecked(ok) == "task"

\* _subscribe_to_topic raises when subscribe() returned False.
AfterSubscribe(ok) == IF ok THEN "task" ELSE "on_stop"

(***************************************************************************)
(* EMQXUser._subscribe_to_topic up to the wait loop of                     *)
(* MQTTClient.subscribe.                                                   *)
(***************************************************************************)
_subscribe_to_topic ==
    /\ pc = "subscribe"
    /\ IF ~mqtt_client.connected
       THEN /\ \E fired2 \in BOOLEAN :
                 /\ Fires(FALSE, TRUE, fired2)
                 /\ events' = Phase(events, "MQTT", "3. SUBSCRIBE", now, FALSE, << >>,
                                    TRUE, fired2).events
                 /\ hist' = [Ran(hist, "subscribe", FALSE, TRUE, fired2) EXCEPT
                                 !.subscribe = "failed", !.end = "startup"]
            /\ pc' = AfterSubscribe(FALSE)
            /\ UNCHANGED net
       ELSE /\ net' = [net EXCEPT !.subPending = Append(@, test_topic)]
            /\ pc' = "subscribe_wait"
            /\ hist' = [hist EXCEPT !.ops = Append(@, "subscribe")]
            /\ UNCHANGED events
    /\ start_time' = now
    /\ Tick
    /\ UNCHANGED <<fleet, http, max_messages, redis_client, username, acl_key, test_topic,
                   mqtt_client, store, messages_sent>>

(***************************************************************************)
(* MQTTClient.subscribe, the wait loop and the return; then the rest of    *)
(* _subscribe_to_topic.                                                    *)
(***************************************************************************)
subscribe ==
    /\ pc = "subscribe_wait"
    /\ \E expired \in BOOLEAN, fired1 \in BOOLEAN, fired2 \in BOOLEAN :
         LET success == mqtt_client.subscribed
             r == Phase(events, "MQTT", "3. SUBSCRIBE", start_time, success, << >>,
                        fired1, fired2)
             h == Ran(hist, "subscribe", success, fired1, fired2)
         IN  /\ WaitOver(mqtt_client.subscribed, expired)
             /\ Fires(success, fired1, fired2)
             /\ events' = r.events
             /\ pc' = AfterSubscribe(r.returned)
             /\ hist' = [h EXCEPT !.subscribe = IF r.returned THEN "ok" ELSE "failed",
                                  !.end = IF AfterSubscribe(r.returned) = "on_stop"
                                          THEN "startup" ELSE @]
    /\ Tick
    /\ UNCHANGED <<fleet, http, max_messages, redis_client, username, acl_key, test_topic,
                   mqtt_client, net, store, messages_sent, start_time>>

\* The quota test off by one.
QuotaReachedOffByOne(sent, max) == sent > max

\* if self.messages_sent >= MAX_MESSAGES_PER_USER: raise StopUser()
QuotaReached(sent, max) == sent >= max

\* A counter that advances by two.
IncrementByTwo(sent) == sent + 2

\* self.messages_sent += 1
Increment(sent) == sent + 1

\* The handler stopping the user on an iteration's error.
AfterIterationErrorStops == "on_stop"

\* except Exception: the error is printed and the task returns; the user goes on.
AfterIterationError == "task"

\* The counter counting every attempt, failed ones too.
CountAfterErrorCounts(sent) == sent + 1

\* ... and the handler leaves the counter as it was: only a full iteration counts.
CountAfterError(sent) == sent

\* MQTTClient.publish: refused when not connected, else the transport's return code.
publish(m, transport_ok) == m.connected /\ transport_ok

\* MQTTClient.wait_for_message: the loop ends when message_received is set or at
\* the deadline, and returns message_received.
wait_for_message(m) == m.message_received

\* f"Load test message from {self.username}"
TestMessage(user) == "Load test message from " \o user

\* The latency _validate_message_receipt reports on success.
Latency(m, st) ==
    IF m.publish_time # NoTime /\ m.receive_time # NoTime
    THEN m.receive_time - m.publish_time
    ELSE now - st

(***************************************************************************)
(* EMQXUser.publish_and_receive up to the wait loop of wait_for_message:   *)
(* the quota check and _publish_message.                                   *)
(***************************************************************************)
publish_and_receive ==
    /\ pc = "task"
    /\ IF QuotaReached(messages_sent, max_messages)
       THEN /\ pc' = "on_stop"
            /\ hist' = [hist EXCEPT !.end = "quota"]
            /\ UNCHANGED <<net, events, start_time, messages_sent>>
       ELSE /\ hist.attempts < MaxAttempts
            /\ \E transport_ok \in BOOLEAN, fired1 \in BOOLEAN, fired2 \in BOOLEAN :
                 LET success == publish(mqtt_client, transport_ok)
                     r == Phase(events, "MQTT", "4. PUBLISH", now, success, << >>,
                                fired1, fired2)
                     h == [Ran(hist, "publish", success, fired1, fired2) EXCEPT
                              !.attempts = @ + 1]
                     h1 == IF success
                           THEN [h EXCEPT !.ops = Append(@, "publish"),
                                          !.mid = h.attempts,
                                          !.rxAtPublish = Len(mqtt_client.received_messages),
                                          !.accepted = NoTime,
                                          !.delivered = NoTime,
                                          !.receipt = "none"]
                           ELSE h
                 IN  /\ Fires(success, fired1, fired2)
                     /\ events' = r.events
                     /\ net' = IF success
                               THEN [net EXCEPT !.outbox =
                                        Append(@, [topic |-> test_topic,
                                                   payload |-> TestMessage(username),
                                                   mid |-> h.attempts])]
                               ELSE net
                     /\ IF r.returned
                        THEN /\ pc' = "receipt_wait"
                             /\ hist' = h1
                             /\ UNCHANGED messages_sent
                        ELSE /\ pc' = AfterIterationError
                             /\ messages_sent' = CountAfterError(messages_sent)
                             /\ hist' = [h1 EXCEPT !.failed = @ + 1,
                                                   !.end = IF AfterIterationError = "on_stop"
                                                           THEN "error" ELSE @]
            /\ start_time' = now
    /\ Tick
    /\ UNCHANGED <<fleet, http, max_messages, redis_client, username, acl_key, test_topic,
                   mqtt_client, store>>

(***************************************************************************)
(* EMQXUser._validate_message_receipt and the end of the iteration in      *)
(* publish_and_receive (the counter, or the exception handler).            *)
(***************************************************************************)
_validate_message_receipt ==
    /\ pc = "receipt_wait"
    /\ \E expired \in BOOLEAN, fired1 \in BOOLEAN, fired2 \in BOOLEAN :
         LET success == wait_for_message(mqtt_client)
             latency == Latency(mqtt_client, start_time)
             r == Phase(events, "MQTT", "5. RECEIVE", start_time, success, <<latency>>,
                        fired1, fired2)
             h == Ran(hist, "receive", success, fired1, fired2)
             h1 == IF success
                   THEN [h EXCEPT
                           !.receipt = "ok",
                           !.fresh = Len(mqtt_client.received_messages) > hist.rxAtPublish,
                           !.reported = latency,
                           !.expected = IF hist.accepted # NoTime /\ hist.delivered # NoTime
                                        THEN hist.delivered - hist.accepted
                                        ELSE now - start_time]
                   ELSE [h EXCEPT !.receipt = "timeout"]
         IN  /\ WaitOver(mqtt_client.message_received, expired)
             /\ Fires(success, fired1, fired2)
             /\ events' = r.events
             /\ IF r.returned
                THEN /\ messages_sent' = Increment(messages_sent)
                     /\ pc' = "task"
                     /\ hist' = [h1 EXCEPT !.counted = @ + 1]
                ELSE /\ pc' = AfterIterationError
                     /\ messages_sent' = CountAfterError(messages_sent)
                     /\ hist' = [h1 EXCEPT !.failed = @ + 1,
                                           !.end = IF AfterIterationError = "on_stop"
                                                   THEN "error" ELSE @]
    /\ Tick
    /\ UNCHANGED <<fleet, http, max_messages, redis_client, username, acl_key, test_topic,
                   mqtt_client, net, store, start_time>>

(***************************************************************************)
(* EMQXUser.on_stop.  Only the delete is wrapped in try/except: an         *)
(* exception of MQTTClient.disconnect or of close leaves on_stop at once.  *)
(***************************************************************************)
\* A delete issued whenever a store connection exists.
HoldsConnection(client, key) == client # None

\* if self.redis_client and self.acl_key
HoldsKey(client, key) == client # None /\ key # None

on_stop ==
    /\ pc = "on_stop"
    /\ \E dis \in BOOLEAN, del \in BOOLEAN, close \in BOOLEAN :
         LET session == mqtt_client.created
             raised1 == session /\ ~dis
             revoke == ~raised1 /\ HoldsKey(redis_client, acl_key)
             release == ~raised1 /\ redis_client # None
             ops1 == IF session THEN <<"disconnect">> ELSE << >>
             ops2 == IF revoke THEN <<"delete">> ELSE << >>
             ops3 == IF release THEN <<"close">> ELSE << >>
         IN  /\ ~session => dis
             /\ ~revoke => del
             /\ ~release => close
             \* loop_stop() ends the loop thread; client.disconnect() closes the
             \* socket, or raises
             /\ net' = IF ~session THEN net
                       ELSE IF ~dis THEN [net EXCEPT !.loop = FALSE]
                       ELSE [net EXCEPT !.loop = FALSE, !.sock = FALSE]
             /\ store' = IF revoke /\ del THEN delete(store, acl_key) ELSE store
             /\ redis_client' = IF release /\ close THEN "closed" ELSE redis_client
             /\ hist' = [hist EXCEPT !.ops = @ \o ops1 \o ops2 \o ops3,
                                     !.stops = @ + 1,
                                     !.stepFailed =
                                         (IF raised1 THEN {"disconnect"} ELSE {})
                                         \cup (IF revoke /\ ~del THEN {"delete"} ELSE {})
                                         \cup (IF release /\ ~close THEN {"close"} ELSE {}),
                                     !.stopRaised =
                                         IF raised1 THEN "disconnect"
                                         ELSE IF release /\ ~close THEN "close"
                                         ELSE None]
    /\ pc' = "exited"
    /\ Tick
    /\ UNCHANGED <<fleet, http, max_messages, username, acl_key, test_topic, mqtt_client,
                   messages_sent, start_time, events>>

(***************************************************************************)
(* The load driver stops the user: GreenletExit is raised in the greenlet  *)
(* at the call it is blocked in, no handler of the user catches it, and    *)
(* the runner calls on_stop.                                               *)
(***************************************************************************)
Blocking == {"on_start", "create_acl", "connect", "connect_wait", "subscribe",
             "subscribe_wait", "task", "receipt_wait"}

Abort ==
    /\ pc \in Blocking
    /\ pc' = "on_stop"
    /\ redis_client' = IF pc = "on_start" THEN "open" ELSE redis_client
    /\ hist' = [hist EXCEPT !.end = "abort"]
    /\ Tick
    /\ UNCHANGED <<fleet, http, max_messages, username, acl_key, test_topic, mqtt_client, net,
                   store, messages_sent, start_time, events>>

(***************************************************************************)
(* The network loop: it runs the callbacks while loop_start's thread is    *)
(* alive.  The broker answers SUBSCRIBE and routes PUBLISH by the ACL.     *)
(* The loop thread is a greenlet: it runs only while the user's greenlet   *)
(* is in a blocking call, and there is none between the exception that     *)
(* stops the user and the call of on_stop.                                 *)
(***************************************************************************)
LoopRuns == net.loop /\ pc # "on_stop"

OnConnack ==
    /\ LoopRuns /\ net.connack
    /\ \E rc \in ResultCodes :
         /\ mqtt_client' = _on_connect(mqtt_client, rc)
         /\ hist' = [hist EXCEPT !.connack = rc]
    /\ net' = [net EXCEPT !.connack = FALSE]
    /\ Tick
    /\ UNCHANGED <<fleet, http, pc, max_messages, redis_client, username, acl_key, test_topic,
                   store, messages_sent, start_time, events>>

OnSuback ==
    /\ LoopRuns /\ net.subPending # << >>
    /\ LET t == Head(net.subPending)
           allowed == Authorized(store, mqtt_client.username, t)
           granted_qos == IF allowed THEN {0} ELSE {SubFailure}
       IN  /\ mqtt_client' = _on_subscribe(mqtt_client, granted_qos)
           /\ net' = [net EXCEPT !.subPending = Tail(@),
                                 !.brokerSubs = IF allowed THEN @ \cup {t} ELSE @]
    /\ Tick
    /\ UNCHANGED <<fleet, http, pc, max_messages, redis_client, username, acl_key, test_topic,
                   store, messages_sent, start_time, events, hist>>

OnPublish ==
    /\ LoopRuns /\ net.outbox # << >>
    /\ LET msg == Head(net.outbox)
           routed == /\ Authorized(store, mqtt_client.username, msg.topic)
                     /\ msg.topic \in net.brokerSubs
       IN  /\ mqtt_client' = _on_publish(mqtt_client)
           /\ net' = [net EXCEPT !.outbox = Tail(@),
                                 !.inflight = IF routed THEN Append(@, msg) ELSE @]
           /\ hist' = IF msg.mid = hist.mid
                      THEN [hist EXCEPT !.accepted = now]
                      ELSE hist
    /\ Tick
    /\ UNCHANGED <<fleet, http, pc, max_messages, redis_client, username, acl_key, test_topic,
                   store, messages_sent, start_time, events>>

OnMessage ==
    /\ LoopRuns /\ net.inflight # << >>
    /\ LET msg == Head(net.inflight)
       IN  /\ mqtt_client' = _on_message(mqtt_client, msg.topic, msg.payload)
           /\ net' = [net EXCEPT !.inflight = Tail(@)]
           /\ hist' = IF msg.mid = hist.mid /\ hist.delivered = NoTime
                      THEN [hist EXCEPT !.delivered = now]
                      ELSE hist
    /\ Tick
    /\ UNCHANGED <<fleet, http, pc, max_messages, redis_client, username, acl_key, test_topic,
                   store, messages_sent, start_time, events>>

Next ==
    \/ on_start
    \/ _create_redis_acl
    \/ _connect_to_emqx
    \/ connect
    \/ _subscribe_to_topic
    \/ subscribe
    \/ publish_and_receive
    \/ _validate_message_receipt
    \/ on_stop
    \/ Abort
    \/ OnConnack
    \/ OnSuback
    \/ OnPublish
    \/ OnMessage

Spec == Init /\ [][Next]_vars

(***************************************************************************)
(* Fair delivery: the loop thread runs its callbacks, the broker routes    *)
(* what it accepted, and what is on its way to the session arrives before  *)
(* the deadline of the receipt wait: the wait is not left by its deadline  *)
(* while the loop still has a packet to write or a message to deliver.     *)
(***************************************************************************)
Undelivered == LoopRuns /\ (net.outbox # << >> \/ net.inflight # << >>)

Timely == hist'.receipt = "timeout" => ~Undelivered

timely_receipt == _validate_message_receipt /\ Timely

FairNext ==
    \/ on_start
    \/ _create_redis_acl
    \/ _connect_to_emqx
    \/ connect
    \/ _subscribe_to_topic
    \/ subscribe
    \/ publish_and_receive
    \/ timely_receipt
    \/ on_stop
    \/ Abort
    \/ OnConnack
    \/ OnSuback
    \/ OnPublish
    \/ OnMessage

FairSpec ==
    /\ Init /\ [][FairNext]_vars
    /\ WF_vars(OnPublish)
    /\ WF_vars(OnMessage)
    /\ WF_vars(timely_receipt)

(***************************************************************************)
(* One MQTTClient used directly, as test_mqtt_auth.py uses a session: the  *)
(* caller connects as a subject that holds one granted topic, then calls   *)
(* subscribe on topics of its choice.  test_topic holds the argument of    *)
(* the call in progress.                                                   *)
(***************************************************************************)
SessionInit ==
    /\ pc = "new"
    /\ max_messages = 0
    /\ redis_client = "open"
    /\ username \in Subjects
    /\ acl_key = AclKeyOf(username)
    /\ test_topic = None
    /\ mqtt_client = MQTTClient(username, username)
    /\ net = NoNet
    /\ \E g \in Topics : store = hset(EmptyStore, acl_key, g, PubSub)
    /\ messages_sent = 0
    /\ start_time = NoTime
    /\ now = 1
    /\ events = << >>
    /\ fleet = NoFleet
    /\ http = NoHttp
    /\ hist = NoHist

\* MQTTClient.connect up to its wait loop.
call_connect ==
    /\ pc = "new"
    /\ \E reachable \in BOOLEAN :
         IF reachable
         THEN /\ net' = [NoNet EXCEPT !.sock = TRUE, !.connack = TRUE, !.loop = TRUE]
              /\ pc' = "connecting"
              /\ UNCHANGED <<mqtt_client, hist>>
         ELSE /\ mqtt_client' = [mqtt_client EXCEPT
                                   !.connection_error = "Network error connecting"]
              /\ pc' = "idle"
              /\ hist' = [hist EXCEPT !.calls =
                            Append(@, [op |-> "connect", topic |-> None, result |-> FALSE])]
              /\ UNCHANGED net
    /\ start_time' = now
    /\ Tick
    /\ UNCHANGED <<fleet, http, max_messages, redis_client, username, acl_key, test_topic, store,
                   messages_sent, events>>

\* MQTTClient.connect: the end of the wait loop and return self.connected.
return_connect ==
    /\ pc = "connecting"
    /\ \E expired \in BOOLEAN : WaitOver(mqtt_client.connected, expired)
    /\ pc' = "idle"
    /\ hist' = [hist EXCEPT !.calls =
                  Append(@, [op |-> "connect", topic |-> None,
                             result |-> mqtt_client.connected])]
    /\ Tick
    /\ UNCHANGED <<fleet, http, max_messages, redis_client, username, acl_key, test_topic,
                   mqtt_client, net, store, messages_sent, start_time, events>>

\* MQTTClient.subscribe up to its wait loop.
call_subscribe ==
    /\ pc = "idle"
    /\ Len(hist.calls) <= MaxCalls
    /\ \E t \in Topics :
         IF ~mqtt_client.connected
         THEN /\ pc' = "idle"
              /\ hist' = [hist EXCEPT !.calls =
                            Append(@, [op |-> "subscribe", topic |-> t, result |-> FALSE])]
              /\ UNCHANGED <<net, test_topic>>
         ELSE \* client.subscribe sends nothing when the socket is closed
              /\ net' = IF net.sock THEN [net EXCEPT !.subPending = Append(@, t)] ELSE net
              /\ test_topic' = t
              /\ pc' = "subscribing"
              /\ UNCHANGED hist
    /\ start_time' = now
    /\ Tick
    /\ UNCHANGED <<fleet, http, max_messages, redis_client, username, acl_key, mqtt_client, store,
                   messages_sent, events>>

\* MQTTClient.subscribe: the end of the wait loop and return self.subscribed.
return_subscribe ==
    /\ pc = "subscribing"
    /\ \E expired \in BOOLEAN : WaitOver(mqtt_client.subscribed, expired)
    /\ pc' = "idle"
    /\ test_topic' = None
    /\ hist' = [hist EXCEPT !.calls =
                  Append(@, [op |-> "subscribe", topic |-> test_topic,
                             result |-> mqtt_client.subscribed])]
    /\ Tick
    /\ UNCHANGED <<fleet, http, max_messages, redis_client, username, acl_key, mqtt_client, net,
                   store, messages_sent, start_time, events>>

\* MQTTClient.publish: it returns at once.
call_publish ==
    /\ pc = "idle"
    /\ Len(hist.calls) <= MaxCalls
    /\ \E t \in Topics, transport_ok \in BOOLEAN :
         LET success == publish(mqtt_client, transport_ok)
             mid == hist.mid + 1
         IN  \* client.publish answers MQTT_ERR_NO_CONN when the socket is closed
             /\ transport_ok => net.sock
             /\ net' = IF success
                       THEN [net EXCEPT !.outbox =
                                Append(@, [topic |-> t,
                                           payload |-> TestMessage(username),
                                           mid |-> mid])]
                       ELSE net
             /\ hist' = [hist EXCEPT
                            !.calls = Append(@, [op |-> "publish", topic |-> t,
                                                 result |-> success]),
                            !.mid = IF success THEN mid ELSE @,
                            !.accepted = IF success THEN NoTime ELSE @,
                            !.delivered = IF success THEN NoTime ELSE @]
    /\ Tick
    /\ UNCHANGED <<fleet, http, pc, max_messages, redis_client, username, acl_key,
                   test_topic, mqtt_client, store, messages_sent, start_time, events>>

\* MQTTClient.wait_for_message up to its wait loop.
call_wait_for_message ==
    /\ pc = "idle"
    /\ Len(hist.calls) <= MaxCalls
    /\ pc' = "waiting"
    /\ start_time' = now
    /\ Tick
    /\ UNCHANGED <<fleet, http, max_messages, redis_client, username, acl_key, test_topic,
                   mqtt_client, net, store, messages_sent, events, hist>>

\* MQTTClient.wait_for_message: the end of the wait loop and return
\* self.message_received.
return_wait_for_message ==
    /\ pc = "waiting"
    /\ \E expired \in BOOLEAN : WaitOver(mqtt_client.message_received, expired)
    /\ pc' = "idle"
    /\ hist' = [hist EXCEPT !.calls =
                  Append(@, [op |-> "wait_for_message", topic |-> None,
                             result |-> wait_for_message(mqtt_client)])]
    /\ Tick
    /\ UNCHANGED <<fleet, http, max_messages, redis_client, username, acl_key, test_topic,
                   mqtt_client, net, store, messages_sent, start_time, events>>

\* MQTTClient.disconnect: loop_stop() ends the loop thread, client.disconnect()
\* writes DISCONNECT and closes the socket.  No attribute of the session is
\* assigned.
call_disconnect ==
    /\ pc = "idle"
    /\ Len(hist.calls) <= MaxCalls
    /\ net' = [net EXCEPT !.loop = FALSE, !.sock = FALSE]
    /\ hist' = [hist EXCEPT !.calls =
                  Append(@, [op |-> "disconnect", topic |-> None, result |-> TRUE])]
    /\ Tick
    /\ UNCHANGED <<fleet, http, pc, max_messages, redis_client, username, acl_key,
                   test_topic, mqtt_client, store, messages_sent, start_time, events>>

SessionNext ==
    \/ call_connect
    \/ return_connect
    \/ call_subscribe
    \/ return_subscribe
    \/ call_publish
    \/ call_wait_for_message
    \/ return_wait_for_message
    \/ call_disconnect
    \/ OnConnack
    \/ OnSuback
    \/ OnPublish
    \/ OnMessage

SessionSpec == SessionInit /\ [][SessionNext]_vars

\* The wait loops sleep 0.1 s at a time against a deadline: a call that waits
\* goes on to its return.  Nothing is assumed of the transport's callbacks.
LiveSessionSpec ==
    /\ SessionSpec
    /\ WF_vars(return_connect)
    /\ WF_vars(return_subscribe)
    /\ WF_vars(return_wait_for_message)

(***************************************************************************)
(* Several users at once.  Each EMQXUser instance runs the lifecycle above *)
(* in a greenlet of its own, on the one Redis and the one broker.  A       *)
(* user's steps are taken whole here (startup up to the grant, connect     *)
(* with subscribe, a publish, the end of a receipt wait, teardown), and    *)
(* the clock is not advanced: no time is compared in this specification.   *)
(***************************************************************************)
Users == 1..NumUsers

\* EMQXUser.__init__, with the broker's side of the user's session: the
\* topics it holds a subscription to and the messages routed to it.
NewUser ==
    [ pc |-> "on_start",
      username |-> None,
      acl_key |-> None,
      test_topic |-> None,
      mqtt_client |-> NoClient,
      messages_sent |-> 0,
      subs |-> {},
      inbox |-> << >> ]

\* A broker that hands a message to every session holding any subscription.
RoutedToSubscribers(subs, topic) == subs # {}

\* The broker hands a message to the sessions subscribed to its topic.
Routed(subs, topic) == topic \in subs

FleetInit ==
    /\ pc = "fleet"
    /\ max_messages = 1
    /\ redis_client = "open"
    /\ username = None
    /\ acl_key = None
    /\ test_topic = None
    /\ mqtt_client = NoClient
    /\ net = NoNet
    /\ store = EmptyStore
    /\ messages_sent = 0
    /\ start_time = NoTime
    /\ now = 1
    /\ events = << >>
    /\ fleet = [u \in Users |-> NewUser]
    /\ http = NoHttp
    /\ hist = NoHist

\* All that a step of the fleet leaves alone.
solo == <<pc, max_messages, redis_client, username, acl_key, test_topic, mqtt_client,
          net, messages_sent, start_time, now, events, http>>

\* on_start up to the grant: the identity is drawn (a uuid4 cut to 8 and to 4
\* hex digits) and the ACL entry written.
user_on_start(u) ==
    /\ fleet[u].pc = "on_start"
    /\ \E subject \in Subjects, topic \in Topics, ok \in BOOLEAN :
         /\ fleet' = [fleet EXCEPT ![u].username = subject,
                                   ![u].acl_key = AclKeyOf(subject),
                                   ![u].test_topic = topic,
                                   ![u].pc = AfterGrant(ok)]
         /\ store' = IF ok THEN hset(store, AclKeyOf(subject), topic, PubSub) ELSE store
    /\ UNCHANGED <<solo, hist>>

\* _connect_to_emqx and _subscribe_to_topic: the session is made and connected,
\* and the broker grants the subscription to the user's topic by the ACL.
user_connect(u) ==
    /\ fleet[u].pc = "connect"
    /\ \E rc \in {0, 135} :
         LET f == fleet[u]
             m1 == _on_connect(MQTTClient(f.username, f.username), rc)
             allowed == Authorized(store, f.username, f.test_topic)
             m2 == _on_subscribe(m1, IF allowed THEN {0} ELSE {SubFailure})
         IN  IF ~m1.connected
             THEN fleet' = [fleet EXCEPT ![u].mqtt_client = m1,
                                         ![u].pc = AfterConnect(FALSE)]
             ELSE fleet' = [fleet EXCEPT ![u].mqtt_client = m2,
                                         ![u].subs = IF allowed THEN {f.test_topic} ELSE {},
                                         ![u].pc = AfterSubscribe(m2.subscribed)]
    /\ UNCHANGED <<solo, store, hist>>

\* publish_and_receive up to the receipt wait: the quota check and the
\* publish, which the broker routes to the subscribed sessions.
user_publish(u) ==
    /\ fleet[u].pc = "task"
    /\ LET f == fleet[u]
           msg == [topic |-> f.test_topic, payload |-> TestMessage(f.username)]
           accepted == Authorized(store, f.username, f.test_topic)
       IN  IF QuotaReached(f.messages_sent, max_messages)
           THEN /\ fleet' = [fleet EXCEPT ![u].pc = "on_stop"]
                /\ UNCHANGED hist
           ELSE /\ hist.attempts < MaxPublishes
                /\ publish(f.mqtt_client, TRUE)
                /\ hist' = [hist EXCEPT !.attempts = @ + 1]
                /\ fleet' = [v \in Users |->
                               LET g == IF accepted /\ Routed(fleet[v].subs, msg.topic)
                                        THEN [fleet[v] EXCEPT !.inbox = Append(@, msg)]
                                        ELSE fleet[v]
                               IN  IF v = u
                                   THEN [g EXCEPT !.pc = "receipt_wait"]
                                   ELSE g]
    /\ UNCHANGED <<solo, store>>

\* The loop of a session runs on_message for the messages routed to it, in
\* their order.
RECURSIVE Delivered(_, _)
Delivered(m, msgs) ==
    IF msgs = << >>
    THEN m
    ELSE Delivered(_on_message(m, Head(msgs).topic, Head(msgs).payload), Tail(msgs))

\* _validate_message_receipt and the end of the iteration.  The callbacks of
\* the session touch the session only and are looked at only here: the
\* messages the loop has delivered by the end of the wait are taken together.
user_receive(u) ==
    /\ fleet[u].pc = "receipt_wait"
    /\ \E k \in 0..Len(fleet[u].inbox) :
         LET m == Delivered(fleet[u].mqtt_client, SubSeq(fleet[u].inbox, 1, k))
         IN  /\ \E expired \in BOOLEAN : WaitOver(m.message_received, expired)
             /\ fleet' = [fleet EXCEPT
                             ![u].mqtt_client = m,
                             ![u].inbox = SubSeq(@, k + 1, Len(@)),
                             ![u].messages_sent = IF wait_for_message(m)
                                                  THEN Increment(@)
                                                  ELSE CountAfterError(@),
                             ![u].pc = "task"]
    /\ UNCHANGED <<solo, store, hist>>

\* on_stop: the session is closed and the user's ACL key deleted.
user_on_stop(u) ==
    /\ fleet[u].pc = "on_stop"
    /\ fleet' = [fleet EXCEPT ![u].subs = {}, ![u].inbox = << >>, ![u].pc = "exited"]
    /\ \E del \in BOOLEAN :
         store' = IF del /\ fleet[u].acl_key # None
                  THEN delete(store, fleet[u].acl_key)
                  ELSE store
    /\ UNCHANGED <<solo, hist>>

FleetNext ==
    \E u \in Users :
        \/ user_on_start(u)
        \/ user_connect(u)
        \/ user_publish(u)
        \/ user_receive(u)
        \/ user_on_stop(u)

FleetSpec == FleetInit /\ [][FleetNext]_vars

(***************************************************************************)
(* The permission store on its own: from any content of the store, the     *)
(* write of _create_redis_acl for some subject and topic, then the delete  *)
(* of on_stop for that subject.  A field holds a bitmask; 0 stands for a    *)
(* field that is not there.                                                *)
(***************************************************************************)
Masks == 0..PubSub

StoreInit ==
    /\ pc = "store"
    /\ max_messages = 0
    /\ redis_client = "open"
    /\ username = None
    /\ acl_key = None
    /\ test_topic = None
    /\ mqtt_client = NoClient
    /\ net = NoNet
    /\ store \in [Keys -> [Topics -> Masks]]
    /\ messages_sent = 0
    /\ start_time = NoTime
    /\ now = 1
    /\ events = << >>
    /\ fleet = NoFleet
    /\ http = NoHttp
    /\ hist = NoHist

\* self.redis_client.hset(self.acl_key, self.test_topic, 3)
redis_hset ==
    /\ pc = "store"
    /\ \E subject \in Subjects, topic \in Topics :
         /\ username' = subject
         /\ acl_key' = AclKeyOf(subject)
         /\ test_topic' = topic
         /\ store' = hset(store, AclKeyOf(subject), topic, PubSub)
    /\ hist' = [hist EXCEPT !.ops = Append(@, "hset"),
                            !.calls = <<[op |-> "hset", before |-> store]>>]
    /\ pc' = "granted"
    /\ Tick
    /\ UNCHANGED <<fleet, http, max_messages, redis_client, mqtt_client, net,
                   messages_sent, start_time, events>>

\* self.redis_client.delete(self.acl_key)
redis_delete ==
    /\ pc = "granted"
    /\ store' = delete(store, acl_key)
    /\ hist' = [hist EXCEPT !.ops = Append(@, "delete")]
    /\ pc' = "revoked"
    /\ Tick
    /\ UNCHANGED <<fleet, http, max_messages, redis_client, username, acl_key, test_topic,
                   mqtt_client, net, messages_sent, start_time, events>>

StoreNext ==
    \/ redis_hset
    \/ redis_delete

StoreSpec == StoreInit /\ [][StoreNext]_vars

(***************************************************************************)
(* The classification of the connection result: on_connect called with     *)
(* any reason code, on a session just constructed or on one that has       *)
(* already had a CONNACK (the callback stays registered for the life of    *)
(* the session).                                                           *)
(***************************************************************************)
ClassifyInit ==
    /\ pc = "classify"
    /\ now = 1
    /\ max_messages = 0
    /\ redis_client = None
    /\ username \in Subjects
    /\ acl_key = AclKeyOf(username)
    /\ test_topic = None
    /\ \E earlier \in ResultCodes \cup {NoCode} :
         mqtt_client = IF earlier = NoCode
                       THEN MQTTClient(username, username)
                       ELSE _on_connect(MQTTClient(username, username), earlier)
    /\ net = [NoNet EXCEPT !.sock = TRUE, !.connack = TRUE, !.loop = TRUE]
    /\ store = EmptyStore
    /\ messages_sent = 0
    /\ start_time = NoTime
    /\ events = << >>
    /\ fleet = NoFleet
    /\ http = NoHttp
    /\ hist = NoHist

\* client.on_connect = self._on_connect, called by the loop with the CONNACK's code.
on_connect ==
    /\ pc = "classify"
    /\ LoopRuns /\ net.connack
    /\ \E rc \in 0..MaxCode :
         /\ mqtt_client' = _on_connect(mqtt_client, rc)
         /\ hist' = [hist EXCEPT !.connack = rc,
                                 !.calls = <<[op |-> "on_connect", before |-> mqtt_client]>>]
    /\ net' = [net EXCEPT !.connack = FALSE]
    /\ pc' = "classified"
    /\ Tick
    /\ UNCHANGED <<fleet, http, max_messages, redis_client, username, acl_key, test_topic,
                   store, messages_sent, start_time, events>>

ClassifyNext == on_connect

ClassifySpec == ClassifyInit /\ [][ClassifyNext]_vars

(***************************************************************************)
(* The registration webhook (webhook.py).  A request is the value of the   *)
(* vernemq-hook header and a body; an exchange ends with a response        *)
(* written by respond, or with an exception that leaves do_POST before     *)
(* respond is reached: the server then closes the connection and the       *)
(* client has no response.                                                 *)
(***************************************************************************)
RegisterHook == "auth_on_register_m5"
NoHook == "[NONE]"                 \* headers.get('vernemq-hook', '[NONE]')
Hooks == {RegisterHook, "auth_on_publish_m5", NoHook}

Missing == "<missing>"             \* a key the object does not have
FieldValues == {Missing, None, "", "x"}   \* None is JSON null

EmptyObject == [type |-> "object", username |-> Missing, password |-> Missing]

\* The values a JSON text can denote, as far as do_POST tells them apart.
JsonValues ==
    [type : {"object"}, username : FieldValues, password : FieldValues]
        \cup {[EmptyObject EXCEPT !.type = t] : t \in {"number", "string", "array", "null"}}

\* text: "none" is a request without body (Content-Length 0 or absent),
\* "not_utf8" bytes that are no UTF-8 text, "not_json" text that is no JSON.
Bodies ==
    {[text |-> t, value |-> EmptyObject] : t \in {"none", "not_utf8", "not_json"}}
        \cup {[text |-> "json", value |-> v] : v \in JsonValues}

\* request_body = self.rfile.read(content_length) if content_length > 0 else b'{}'
request_body(body) ==
    IF body.text = "none" THEN [text |-> "json", value |-> EmptyObject] ELSE body

\* try: data = json.loads(request_body) / except json.JSONDecodeError: data = {}
\* (bytes that do not decode raise UnicodeDecodeError, which is not caught)
json_loads(body) ==
    CASE body.text = "json"     -> [raised |-> None, value |-> body.value]
      [] body.text = "not_json" -> [raised |-> None, value |-> EmptyObject]
      [] body.text = "not_utf8" -> [raised |-> "UnicodeDecodeError", value |-> EmptyObject]

\* data[key]
getitem(data, key) ==
    IF data.type # "object" THEN [raised |-> "TypeError", value |-> None]
    ELSE IF data[key] = Missing THEN [raised |-> "KeyError", value |-> None]
    ELSE [raised |-> None, value |-> data[key]]

WebhookInit ==
    /\ pc = "webhook"
    /\ max_messages = 0
    /\ redis_client = None
    /\ username = None
    /\ acl_key = None
    /\ test_topic = None
    /\ mqtt_client = NoClient
    /\ net = NoNet
    /\ store = EmptyStore
    /\ messages_sent = 0
    /\ start_time = NoTime
    /\ now = 1
    /\ events = << >>
    /\ fleet = NoFleet
    /\ \E hook \in Hooks, body \in Bodies :
         http = [NoHttp EXCEPT !.request = [hook |-> hook, body |-> body]]
    /\ hist = NoHist

do_POST ==
    /\ pc = "webhook"
    /\ LET webhook_name == http.request.hook
           loaded == json_loads(request_body(http.request.body))
           data == loaded.value
           password == getitem(data, "password")
           user == getitem(data, "username")
           raised == IF loaded.raised # None THEN loaded.raised
                     ELSE IF webhook_name # RegisterHook THEN None
                     ELSE IF password.raised # None THEN password.raised
                     ELSE user.raised
           response == IF raised # None THEN None
                       ELSE IF webhook_name = RegisterHook
                               /\ (user.value = None \/ password.value = None)
                            THEN "not_allowed"
                       ELSE "ok"
       IN  http' = [http EXCEPT !.response = response, !.raised = raised]
    /\ pc' = "handled"
    /\ UNCHANGED <<fleet, max_messages, redis_client, username, acl_key, test_topic,
                   mqtt_client, net, store, messages_sent, start_time, now, events, hist>>

\* The CONNACK the broker sends for the answer of its registration hook: it
\* accepts the client when the hook allowed it and refuses it otherwise (a
\* hook that gave no answer included).
ConnackOf(response) ==
    IF response = "ok" THEN {0} ELSE ResultCodes \ {0}

\* on_connect of test_failed_authentication_empty_credentials:
\* connection_result["result_code"] = rc; if rc == 0: connected = True
test_on_connect ==
    /\ pc = "handled"
    /\ http.request.hook = RegisterHook
    /\ \E rc \in ConnackOf(http.response) :
         http' = [http EXCEPT !.connection_result =
                                 [connected |-> (rc = 0), result_code |-> rc]]
    /\ pc' = "acknowledged"
    /\ UNCHANGED <<fleet, max_messages, redis_client, username, acl_key, test_topic,
                   mqtt_client, net, store, messages_sent, start_time, now, events, hist>>

WebhookNext ==
    \/ do_POST
    \/ test_on_connect

WebhookSpec == WebhookInit /\ [][WebhookNext]_vars

(***************************************************************************)
(* Properties of the lifecycle (specification Spec).                       *)
(***************************************************************************)
InOps(op) == \E i \in DOMAIN hist.ops : hist.ops[i] = op

Ended == pc \in {"on_stop", "exited"}

C2_CounterBounded ==
    /\ [](messages_sent >= 0 /\ messages_sent <= max_messages)
    /\ [][messages_sent = max_messages =>
            /\ hist'.attempts = hist.attempts
            /\ Len(net'.outbox) <= Len(net.outbox)]_vars

C2_Witness ==
    /\ messages_sent = max_messages
    /\ max_messages >= 2
    /\ pc = "exited"

\* The teardown calls made so far, in order.
Teardown == SelectSeq(hist.ops, LAMBDA op : op \in {"disconnect", "delete", "close"})

\* The teardown owed to what startup acquired: a session object, an ACL key,
\* a store connection.
TeardownOwed ==
    (IF mqtt_client.created THEN <<"disconnect">> ELSE << >>)
    \o (IF redis_client # None /\ acl_key # None THEN <<"delete">> ELSE << >>)
    \o (IF redis_client # None THEN <<"close">> ELSE << >>)

\* C3: however the lifecycle ended, on exit the teardown has run exactly once
\* and has made its calls in order: disconnect, then delete, then close (each
\* for what the client holds).
C3_TeardownComplete ==
    pc = "exited" => /\ hist.stops = 1
                     /\ Teardown = TeardownOwed

\* C4: teardown does not raise on a failed disconnect, and a failed step stops
\* no later step: after a failed disconnect the delete and the close owed are
\* still attempted, after a failed delete the close is still attempted.
C4_TeardownStepsIndependent ==
    pc = "exited" =>
        /\ hist.stopRaised # "disconnect"
        /\ "disconnect" \in hist.stepFailed =>
              /\ (redis_client # None /\ acl_key # None) => InOps("delete")
              /\ redis_client # None => InOps("close")
        /\ "delete" \in hist.stepFailed => InOps("close")

\* C5: connect is issued only after the grant succeeded, the store holds the
\* client's entry (acl_key, test_topic, publish+subscribe) from the moment
\* connect is issued until teardown, and after a failed grant no connect is
\* issued and no session object is made.
C5_GrantBeforeConnect ==
    /\ InOps("connect") => hist.grant = "ok"
    /\ (InOps("connect") /\ ~Ended) => HasEntry(store, acl_key, test_topic, PubSub)
    /\ hist.grant = "failed" => (~InOps("connect") /\ ~mqtt_client.created)

C5_Witness ==
    /\ InOps("connect")
    /\ pc = "connect_wait"
    /\ HasEntry(store, acl_key, test_topic, PubSub)

\* The position of the first call of op in the trace (0: never called).
FirstOp(op) ==
    IF InOps(op)
    THEN CHOOSE i \in DOMAIN hist.ops :
            /\ hist.ops[i] = op
            /\ \A j \in 1..(i - 1) : hist.ops[j] # op
    ELSE 0

\* C6: subscribe is issued only after connect returned success, a publish only
\* after subscribe returned success, each later in the trace than the one
\* before; and a client whose startup failed makes no publish attempt.
C6_StartupOrder ==
    /\ InOps("subscribe") => (hist.connect = "ok" /\ FirstOp("connect") < FirstOp("subscribe"))
    /\ hist.attempts > 0 => (hist.subscribe = "ok" /\ hist.connect = "ok")
    /\ InOps("publish") => (/\ 0 < FirstOp("subscribe")
                            /\ FirstOp("subscribe") < FirstOp("publish"))
    /\ hist.end = "startup" => (hist.attempts = 0 /\ ~InOps("publish"))

C6_Witness ==
    /\ InOps("publish")
    /\ hist.subscribe = "ok"
    /\ hist.attempts >= 2

\* C7: a receipt wait reports success only if a message arrived at the
\* callback after the publish of that iteration.
C7_ReceiptIsOfThisIteration ==
    hist.receipt = "ok" => hist.fresh

\* C8: the latency reported with a successful receipt is on_message's time
\* minus on_publish's time of that same iteration (the time since the wait
\* began when one of them is missing), and it is not negative.
C8_LatencyOfThisIteration ==
    hist.receipt = "ok" => (hist.reported = hist.expected /\ hist.reported >= 0)

\* C10 as stated: once an iteration has failed (publish error or receipt
\* timeout) the client issues no further publish.
C10_FailureStopsLoop ==
    [][hist.failed > 0 => hist'.attempts = hist.attempts]_vars

\* C10 amended: an iteration's failure does not end the loop: the step that
\* fails returns the client to the task loop with its counter unchanged, and
\* teardown begins only on a failed startup, on the quota or on an abort by
\* the load driver.
C10_FailureKeepsLooping ==
    /\ [](hist.end \in {"none", "startup", "quota", "abort"})
    /\ [][hist'.failed # hist.failed =>
            (pc' = "task" /\ messages_sent' = messages_sent)]_vars

C10_Witness ==
    /\ hist.failed >= 1
    /\ pc = "receipt_wait"
    /\ hist.attempts = hist.failed + hist.counted + 1

(***************************************************************************)
(* Properties of one session used directly (specification SessionSpec).    *)
(***************************************************************************)

\* C9: on a session whose subject holds one granted topic, no subscribe to
\* another topic reports success; stated for the order the claim singles out:
\* connect succeeded, a subscribe to the granted topic succeeded, and only then
\* comes the subscribe to a topic that is not granted.
C9_SubscribeDeniedOffGrant ==
    \A i \in DOMAIN hist.calls :
        LET c == hist.calls[i]
            after_granted ==
                \E j \in 1..(i - 1) :
                    /\ hist.calls[j].op = "subscribe"
                    /\ hist.calls[j].result
                    /\ Authorized(store, username, hist.calls[j].topic)
        IN  ( /\ c.op = "subscribe"
              /\ ~Authorized(store, username, c.topic)
              /\ hist.calls[1].op = "connect" /\ hist.calls[1].result
              /\ after_granted )
            => ~c.result

(***************************************************************************)
(* Properties of the connection result (specification Spec).               *)
(***************************************************************************)
\* The labels of the protocol-level rejections.
RejectionLabels == {ErrorMessage(rc) : rc \in ResultCodes \ {0}}

\* C11: connect reports success iff on_connect was called with code 0 before
\* the wait ended; after a rejection code the failure carries that code and its
\* label; with no callback by the deadline it carries the no-response text and
\* no code; a failure of the transport's connect carries no code and a text
\* that is neither the no-response text nor a rejection label.
C11_ConnectReport ==
    LET r == hist.report
    IN  r.made =>
          /\ r.success <=> r.connack = 0
          /\ r.connack \notin {NoCode, 0} =>
                r.details = [result_code |-> <<r.connack>>, error |-> ErrorMessage(r.connack)]
          /\ (r.sock /\ r.connack = NoCode) =>
                r.details = [result_code |-> << >>, error |-> NoResponse]
          /\ ~r.sock =>
                /\ ~r.success
                /\ r.details.result_code = << >>
                /\ r.details.error \notin ({NoResponse, None} \cup RejectionLabels)

C11_Witness ==
    /\ hist.report.made
    /\ hist.report.connack = 135
    /\ hist.report.details.error = "Connection refused - not authorized"

(***************************************************************************)
(* Properties of the classification (specification ClassifySpec).          *)
(***************************************************************************)
\* The labels of the table.
TableLabels == {error_messages[c] : c \in DOMAIN error_messages}

GenericLabel(rc) == "Connection refused - error code " \o ToString(rc)

\* C12 as stated: code 0 yields a connected session without error label; every
\* code in 1..5 and in 128..159 yields a label of the table; every other
\* non-zero code yields the generic label with the raw code.
C12_ClassificationAsStated ==
    pc = "classified" =>
        LET rc == hist.connack
        IN  /\ mqtt_client.connection_result_code = rc
            /\ rc = 0 => (mqtt_client.connected /\ mqtt_client.connection_error = None)
            /\ rc \in (1..5) \cup (128..159) =>
                  (~mqtt_client.connected /\ mqtt_client.connection_error \in TableLabels)
            /\ rc \notin {0} \cup (1..5) \cup (128..159) =>
                  (~mqtt_client.connected /\ mqtt_client.connection_error = GenericLabel(rc))

\* The codes the table covers: those a CONNACK can carry.
TableCodes == (1..5) \cup (128..138) \cup {140, 144, 149, 151} \cup (153..157) \cup {159}

\* C12 amended: the session records the code; code 0 marks it connected and
\* sets no label (a label left by an earlier rejection of the same session
\* stays); a code of the table marks it not connected with the label of that
\* code; every other non-zero code, 139, 141..143, 145..148, 150, 152 and 158
\* among them, marks it not connected with the generic label carrying the code.
C12_Classification ==
    pc = "classified" =>
        LET rc == hist.connack
            before == hist.calls[1].before
        IN  /\ mqtt_client.connection_result_code = rc
            /\ rc = 0 => /\ mqtt_client.connected
                         /\ mqtt_client.connection_error = before.connection_error
                         /\ before.connection_result_code = NoCode =>
                               mqtt_client.connection_error = None
            /\ rc \in TableCodes =>
                  /\ ~mqtt_client.connected
                  /\ mqtt_client.connection_error = error_messages[rc]
            /\ rc \notin {0} \cup TableCodes =>
                  /\ ~mqtt_client.connected
                  /\ mqtt_client.connection_error = GenericLabel(rc)
                  /\ mqtt_client.connection_error \notin TableLabels

C12_Witness ==
    /\ pc = "classified"
    /\ hist.connack = 139
    /\ mqtt_client.connection_error = "Connection refused - error code 139"

(***************************************************************************)
(* Termination of the blocking calls (specification LiveSessionSpec).      *)
(***************************************************************************)
\* C13: connect, subscribe and wait_for_message each return to their caller
\* in every execution, those in which the transport delivers no callback
\* included.
C13_BlockingCallsReturn ==
    /\ (pc = "connecting") ~> (pc = "idle")
    /\ (pc = "subscribing") ~> (pc = "idle")
    /\ (pc = "waiting") ~> (pc = "idle")

\* A wait_for_message that returned False while the publish it waited for was
\* still queued in the transport.
C13_Witness ==
    /\ pc = "idle"
    /\ net.outbox # << >>
    /\ \E i \in DOMAIN hist.calls :
          /\ hist.calls[i].op = "wait_for_message"
          /\ ~hist.calls[i].result

(***************************************************************************)
(* Properties of several users at once (specification FleetSpec).          *)
(***************************************************************************)
Identified(u) == fleet[u].username # None

Alive(u) == Identified(u) /\ fleet[u].pc # "exited"

\* The users that hold an identity hold different subjects and different topics.
Distinct ==
    \A u, v \in Users :
        (u # v /\ Identified(u) /\ Identified(v)) =>
            /\ fleet[u].username # fleet[v].username
            /\ fleet[u].test_topic # fleet[v].test_topic

\* The messages a user's callback has recorded, and those routed to its
\* session for the callback, are its own publishes.
OwnMessagesOnly(u) ==
    LET f == fleet[u]
    IN  /\ \A i \in DOMAIN f.mqtt_client.received_messages :
              /\ f.mqtt_client.received_messages[i].topic = f.test_topic
              /\ f.mqtt_client.received_messages[i].payload = TestMessage(f.username)
        /\ \A i \in DOMAIN f.inbox :
              /\ f.inbox[i].topic = f.test_topic
              /\ f.inbox[i].payload = TestMessage(f.username)

\* C14: when the users hold different subjects and different topics, under
\* every interleaving the message callback of a user records only that user's
\* publishes, and its receipt flag is set only by one of them.
C14_NoCrossTalk ==
    Distinct =>
        \A u \in Users :
            /\ OwnMessagesOnly(u)
            /\ fleet[u].mqtt_client.message_received =>
                  fleet[u].mqtt_client.received_messages # << >>

C14_Witness ==
    /\ Distinct
    /\ \A u \in Users : /\ fleet[u].messages_sent = 1
                         /\ fleet[u].mqtt_client.received_messages # << >>
                         /\ fleet[u].pc = "task"

\* C15: two users alive at the same time hold different subjects and
\* different topics.
C15_IdentitiesUnique ==
    \A u, v \in Users :
        (u # v /\ Alive(u) /\ Alive(v)) =>
            /\ fleet[u].username # fleet[v].username
            /\ fleet[u].test_topic # fleet[v].test_topic

(***************************************************************************)
(* Properties of the permission store (specification StoreSpec).           *)
(***************************************************************************)
\* C16: whatever the store held, after the write of (subject, topic) and the
\* delete of the subject's key the store holds no field under that subject,
\* and the fields of every other subject are what they were before the write.
C16_GrantRevokeRoundTrip ==
    pc = "revoked" =>
        /\ \A t \in Topics : store[acl_key][t] = 0
        /\ ~Authorized(store, username, test_topic)
        /\ \A k \in Keys \ {acl_key} : store[k] = hist.calls[1].before[k]

\* The round trip on a store that held fields of the subject and of another.
C16_Witness ==
    /\ pc = "revoked"
    /\ \E t \in Topics : hist.calls[1].before[acl_key][t] # 0
    /\ \E k \in Keys \ {acl_key} : \E t \in Topics : store[k][t] # 0

(***************************************************************************)
(* Properties of the events (specification Spec).                          *)
(***************************************************************************)
\* The events fired under a name, and those of them with a given outcome.
EventsOf(name) == SelectSeq(events, LAMBDA e : e.name = name)

Count(name, ok) == Len(SelectSeq(events, LAMBDA e : e.name = name /\ e.ok = ok))

\* One event for a helper that has run, a success event iff it returned.
OneEvent(name, outcome) ==
    /\ Len(EventsOf(name)) = (IF outcome = "none" THEN 0 ELSE 1)
    /\ Count(name, TRUE) = (IF outcome = "ok" THEN 1 ELSE 0)

\* C17: every helper that has run (grant, connect, subscribe, publish, receipt
\* wait) has appended exactly one event, a success event iff its operation
\* succeeded; and the step in which an iteration fails appends a failure event
\* and returns the user to the task loop.
C17_OneEventPerPhase ==
    /\ [](/\ OneEvent("1. Push ACL", hist.grant)
          /\ OneEvent("2. CONNECT", hist.connect)
          /\ OneEvent("3. SUBSCRIBE", hist.subscribe)
          /\ Len(EventsOf("4. PUBLISH")) = hist.attempts
          /\ Count("4. PUBLISH", TRUE) = Len(SelectSeq(hist.ops, LAMBDA op : op = "publish"))
          /\ Count("5. RECEIVE", TRUE) = hist.counted
          /\ Count("4. PUBLISH", FALSE) + Count("5. RECEIVE", FALSE) = hist.failed
          /\ Count("4. PUBLISH", TRUE) - Len(EventsOf("5. RECEIVE")) \in {0, 1})
    /\ [][hist'.failed # hist.failed =>
            /\ Len(events') = Len(events) + 1
            /\ ~events'[Len(events')].ok
            /\ pc' = "task"]_vars

\* The events of the permission store.
Provisioning == SelectSeq(events, LAMBDA e : e.request_type = "Redis")

\* C18: a user that wrote its ACL entry and deleted it in teardown has emitted
\* one event for the write and one for the delete (stated for the runs in
\* which no fire of an event raised).
C18_ProvisioningEvents ==
    (pc = "exited" /\ hist.emitRaised = 0 /\ hist.grant = "ok" /\ InOps("delete")
        /\ "delete" \notin hist.stepFailed)
    => Len(Provisioning) = 2

\* C19: an exception of the emitter does not change what the controller sees
\* of a phase: a helper whose operation succeeded returns, so a publish that
\* went out is followed by its receipt wait and a receipt that succeeded is
\* counted.
C19_EmitFailureNotPropagated ==
    /\ hist.last.ok => hist.last.returned
    /\ hist.receipt = "ok" => hist.last.name # "receive" \/ hist.last.returned

\* The parsed body of a request has the key (a request without body, or with a
\* body that is no JSON object, has neither key).
HasKey(body, key) ==
    /\ body.text = "json"
    /\ body.value.type = "object"
    /\ body.value[key] # Missing

\* C20: a registration-hook request whose body lacks username or lacks
\* password (an empty or unparsable body included) is answered with the deny
\* response: never ok, never left without a response.
C20_MissingCredentialsDenied ==
    (/\ pc = "handled"
     /\ http.request.hook = RegisterHook
     /\ ~(HasKey(http.request.body, "username") /\ HasKey(http.request.body, "password")))
        => http.response = "not_allowed"

\* The CONNECT carried username "" and password "": client.username_pw_set("", "").
EmptyCredentials(body) ==
    /\ body.text = "json"
    /\ body.value = [type |-> "object", username |-> "", password |-> ""]

\* C21: a connection attempt with empty username and empty password ends
\* with a non-zero result code and connected = false.
C21_EmptyCredentialsRefused ==
    (pc = "acknowledged" /\ EmptyCredentials(http.request.body))
        => /\ http.connection_result.result_code # 0
           /\ ~http.connection_result.connected

\* Both credentials are in the body and neither is null.
Credentials(body) ==
    /\ HasKey(body, "username") /\ body.value.username # None
    /\ HasKey(body, "password") /\ body.value.password # None

\* C30: a request whose hook is not the registration hook (or is absent) is
\* answered ok whatever its body, a missing or unparsable body included; a
\* registration request with both credentials present and non-null is
\* answered ok whatever their values.
C30_AllowedRequests ==
    (pc # "webhook" /\ (http.request.hook # RegisterHook \/ Credentials(http.request.body)))
        => http.response = "ok"

\* The user is being torn down: the loop thread no longer runs.
Stopped == pc \in {"on_stop", "exited"}

\* The message of the user's publishes: its topic and its payload.
IsTestMessage(msg) ==
    /\ msg.topic = test_topic
    /\ msg.payload = TestMessage(username)

\* Messages the session's callback recorded with exactly the published topic
\* and payload, and published messages the broker routes, or has routed, to
\* the session.
Recorded == Len(SelectSeq(mqtt_client.received_messages, IsTestMessage))

Owed ==
    Len(SelectSeq(net.inflight, IsTestMessage))
        + (IF Authorized(store, username, test_topic) /\ test_topic \in net.brokerSubs
           THEN Len(SelectSeq(net.outbox, IsTestMessage))
           ELSE 0)

Disconnected == \E i \in 1..Len(hist.calls) : hist.calls[i].op = "disconnect"

\* C23: after disconnect() every later subscribe or publish on the session
\* returns failure, and the session does not report connected.
C23_TerminatedStays ==
    /\ \A i, j \in 1..Len(hist.calls) :
          (i < j /\ hist.calls[i].op = "disconnect"
                 /\ hist.calls[j].op \in {"subscribe", "publish"})
              => ~hist.calls[j].result
    /\ Disconnected => ~mqtt_client.connected

\* A call of op left its wait loop by the deadline and returned failure.  (A
\* connect that could not open the socket, and a subscribe refused at once
\* with the session not connected, have not waited.)
TimedOut(op) ==
    \E i \in 1..Len(hist.calls) :
        /\ hist.calls[i].op = op
        /\ ~hist.calls[i].result
        /\ op = "connect" => net # NoNet
        /\ op = "subscribe" =>
              \E j \in 1..(i - 1) : hist.calls[j].op = "connect" /\ hist.calls[j].result

\* C24: once connect (or subscribe) has returned failure at its deadline, no
\* acknowledgment delivered later makes the session connected (or subscribed).
C24_FailedStays ==
    /\ TimedOut("connect") => ~mqtt_client.connected
    /\ TimedOut("subscribe") => ~mqtt_client.subscribed

\* C25: publish hands a message to the transport only when the session is
\* subscribed; a publish that is refused leaves the session unchanged.
C25_PublishOnlySubscribed ==
    [][/\ Len(net'.outbox) > Len(net.outbox) => mqtt_client.subscribed
       /\ (Len(hist'.calls) > Len(hist.calls)
            /\ hist'.calls[Len(hist'.calls)].op = "publish"
            /\ ~hist'.calls[Len(hist'.calls)].result)
              => mqtt_client' = mqtt_client /\ net' = net]_vars

\* C26: while the receipt wait of an iteration runs, on_publish has recorded
\* the accept time of that iteration's publish (it was recorded before the
\* wait began).
C26_AcceptedBeforeWait ==
    pc = "receipt_wait" => hist.accepted # NoTime

IsPrefix(seq1, seq2) ==
    /\ Len(seq1) <= Len(seq2)
    /\ \A i \in 1..Len(seq1) : seq1[i] = seq2[i]

\* C28: message_received is true iff received_messages is non-empty iff
\* receive_time is set; received_messages only grows; message_received and
\* receive_time do not change once the first message was delivered.
C28_ReceiptState ==
    /\ [](/\ mqtt_client.message_received <=> mqtt_client.received_messages # << >>
          /\ mqtt_client.message_received <=> mqtt_client.receive_time # NoTime)
    /\ [][/\ IsPrefix(mqtt_client.received_messages, mqtt_client'.received_messages)
           /\ mqtt_client.message_received =>
                 /\ mqtt_client'.message_received
                 /\ mqtt_client'.receive_time = mqtt_client.receive_time]_vars

\* A second message was delivered after a second publish; receive_time is the
\* time of the first.
C28_Witness ==
    /\ Len(mqtt_client.received_messages) = 2
    /\ hist.attempts = 2
    /\ mqtt_client.receive_time = mqtt_client.received_messages[1].timestamp
    /\ mqtt_client.receive_time < mqtt_client.received_messages[2].timestamp

\* C29: teardown acts only on what startup reached.  A user whose identity
\* was never generated ends with no delete and no disconnect issued; a user
\* that issued the grant and never created its session ends with the delete
\* issued and no disconnect.
C29_TeardownFrame ==
    /\ InOps("disconnect") => mqtt_client.created
    /\ InOps("delete") => acl_key # None
    /\ (pc = "exited" /\ InOps("hset") /\ ~mqtt_client.created) => InOps("delete")

\* Startup failed at the ping and teardown only closed the store connection.
C29_Witness ==
    /\ pc = "exited"
    /\ hist.end = "startup"
    /\ acl_key = None
    /\ hist.ops = <<"ping", "close">>

====
